---- MODULE Spec2Model ----
(***************************************************************************)
(* The JSON payment protocol client (PaymentProtocol) of                   *)
(* examples/rpc-wallet-client.js: its four client operations, the          *)
(* transport step _asyncRequest and the response verifier verifyResponse  *)
(* (specification Spec), and the example wallet's main with broadcastP2P   *)
(* (specification SpecMain).                                               *)
(*                                                                         *)
(* Strings are modelled by their structure:                                *)
(*   - a URL string is the record of the parts url.parse splits it into;   *)
(*   - a response body is a sequence of symbols ("{", "}", "m", "t", "n",  *)
(*     "x", " "): "m" and "t" stand for the members "network":"main" and   *)
(*     "network":"test", "n" for the literal null, " " for white space;    *)
(*   - a hexadecimal string is [hex |-> the bytes its leading hex digits   *)
(*     encode, tail |-> what follows them];                                *)
(*   - SHA-256 is an injective function of the body (no collisions);       *)
(*   - an ECDSA signature is the pair of its signer and the signed bytes.  *)
(***************************************************************************)
EXTENDS Integers, Sequences, FiniteSets, TLC

VARIABLES
    trustedKeys,   \* this.trustedKeys
    options,       \* this.options
    pc,            \* "idle" | "awaiting" | "done": position of the current operation
    op,            \* the operation invoked and its arguments
    sent,          \* the HTTPS requests issued by the current operation, in order
    call,          \* the arguments of the verifyResponse invocation (or the raw response)
    result,        \* what the operation returned or threw
    tampered,      \* the last step re-verified an accepted response with one byte changed
    mpc,           \* main: the await it is suspended at, or "fulfilled" | "rejected"
    paymentOptions,\* main: paymentOptions.responseData.paymentOptions
    cursor,        \* main: position of the for loop in paymentOptions
    index,         \* main: index
    choices,       \* main: choices
    unavailable,   \* main: unavailable
    printed,       \* main: the numbered option lines written to the console
    answer,        \* main: the number promptly.choose returned
    choice,        \* main: choice, after line 47
    rpcUrl,        \* the chain whose RPC server the globals rpcUrl, rpcUser, rpcPass name
    signPayment,   \* main: signPayment
    started,       \* the client operations and the broadcast main has called, in order
    succeeded,     \* the awaited steps of main that have fulfilled
    tasks,         \* the two promises handed to Promise.all
    settled,       \* the order in which those promises settled
    mainError      \* what main's promise was rejected with

clientVars == <<trustedKeys, options, pc, op, sent, call, result, tampered>>

mainVars == <<mpc, paymentOptions, cursor, index, choices, unavailable, printed, answer,
              choice, rpcUrl, signPayment, started, succeeded, tasks, settled, mainError>>

vars == <<clientVars, mainVars>>

(***************************************************************************)
(* Bounds of the model.                                                    *)
(***************************************************************************)
\* The response headers of the model differ from the canonical, fully valid headers
\* in at most MaxDefects of the four headers.
MaxDefects == 2

\* The longest list of payment options a merchant offers.
MaxOptions == 3

(***************************************************************************)
(* Program constants.                                                      *)
(***************************************************************************)
StatusOk == 200
PayProVersion == 2

(***************************************************************************)
(* URL strings and url.parse.                                              *)
(***************************************************************************)
Url(protocol, host, path) == [protocol |-> protocol, host |-> host, path |-> path, r |-> <<>>]

\* The empty string.
EmptyUrl == Url("", "", "")

\* "bitcoin:?r=<u>" and "bitcoin:" without an r parameter.
PaymentUri(rs) == [protocol |-> "bitcoin:", host |-> "", path |-> "", r |-> rs]

MerchantUrl == Url("https:", "merchant.example", "/pay")
EvilUrl == Url("https:", "evil.example", "/pay")
HttpUrl == Url("http:", "Merchant.Example", "/pay")
RelativeUrl == Url("", "", "pay")

PlainUrls == {MerchantUrl, EvilUrl, HttpUrl, RelativeUrl}

PaymentUris == {PaymentUri(<<>>), PaymentUri(<<MerchantUrl>>), PaymentUri(<<HttpUrl>>)}

\* String.prototype.toLowerCase on the host names of the model.
ToLowerCase(h) == IF h = "Merchant.Example" THEN "merchant.example" ELSE h

\* url.parse(u): protocol and hostname are lower-cased; a string without "//host"
\* has hostname null, one without "scheme:" has protocol null.
UrlParse(u) ==
    [protocol |-> IF u.protocol = "" THEN "null" ELSE u.protocol,
     hostname |-> IF u.host = "" THEN "null" ELSE ToLowerCase(u.host),
     path     |-> IF u.path = "" THEN "null" ELSE u.path,
     query    |-> u.r]

\* query.decode(q).r is falsy when the query has no r parameter.
HasR(q) == q # <<>>
QueryR(q) == q[1]

(***************************************************************************)
(* Response bodies and JSON.parse.                                         *)
(***************************************************************************)
Bytes == {"{", "}", "m", "t", "n", "x", " "}

Bodies ==
    { <<>>, <<"{", "}">>, <<"{", "m", "}">>, <<"{", "t", "}">>,
      <<"{", "m", "}", " ">>, <<"n">>, <<"x">> }

RECURSIVE StripSpace(_)
StripSpace(s) ==
    IF s = <<>> THEN <<>>
    ELSE IF Head(s) = " " THEN StripSpace(Tail(s))
    ELSE <<Head(s)>> \o StripSpace(Tail(s))

JsonObject(network) == [type |-> "object", network |-> network]
JsonNull == [type |-> "null", network |-> "undefined"]

\* JSON.parse(rawBody) does not throw.
JsonValid(rawBody) ==
    LET t == StripSpace(rawBody) IN
    \/ t = <<"n">>
    \/ t = <<"{", "}">>
    \/ Len(t) = 3 /\ t[1] = "{" /\ t[2] \in {"m", "t"} /\ t[3] = "}"

\* JSON.parse(rawBody), for a body that parses.
JsonParse(rawBody) ==
    LET t == StripSpace(rawBody) IN
    IF t = <<"n">> THEN JsonNull
    ELSE IF t = <<"{", "}">> THEN JsonObject("undefined")
    ELSE JsonObject(IF t[2] = "m" THEN "main" ELSE "test")

(***************************************************************************)
(* Hex strings, SHA-256 and secp256k1.                                     *)
(***************************************************************************)
HexString(bytes, tail) == [hex |-> bytes, tail |-> tail]

\* The value of an expression that is undefined, where a hex string is expected.
UndefinedString == HexString(<<>>, "undefined")

\* crypto.createHash('sha256').update(rawBody, 'utf8').digest('hex')
Sha256Hex(rawBody) == HexString(<<"sha256">> \o rawBody, "")

\* Buffer.from(s, 'hex'): decoding stops at the first character that is not a hex digit.
BufferFromHex(s) == s.hex

PrivateKeys == {"k1", "k2", "kx"}
PublicKey(k) == HexString(<<"pub", k>>, "")

\* The 64-byte compact signature of msg (32 bytes) under private key k.
Sign(k, msg) == <<"sig", k>> \o msg
\* Bytes that are not 64 bytes long.
ShortBytes == <<"short">>

\* secp256k1.verify asserts that the signature is a 64-byte buffer and throws otherwise.
Secp256k1Throws(sig) == sig = <<>> \/ Head(sig) # "sig"

Secp256k1Verify_AnyKey(msg, sig, pub) == \E k \in PrivateKeys : sig = Sign(k, msg)

Secp256k1Verify_AnyMessage(msg, sig, pub) ==
    \E k \in PrivateKeys : PublicKey(k).hex = pub /\ sig[2] = k

\* secp256k1.verify(msg, sig, pub) for a 64-byte sig: sig signs msg under the private
\* key that pub belongs to.
Secp256k1Verify(msg, sig, pub) ==
    \E k \in PrivateKeys : PublicKey(k).hex = pub /\ sig = Sign(k, msg)

(***************************************************************************)
(* Response headers.  A header value is undefined (header absent), an      *)
(* array (a value that is not a string) or a string.                       *)
(***************************************************************************)
\* digest: "<alg>=<hash>", or "<alg>" alone when eq is FALSE.
DigestHeader(type, alg, eq, hash) == [type |-> type, alg |-> alg, eq |-> eq, hash |-> hash]
\* signature: a hex string.
SignatureHeader(type, s) == [type |-> type, s |-> s]
\* x-signature-type and x-identity: plain text.
TextHeader(type, text) == [type |-> type, text |-> text]

HeaderMap(digest, signature, signatureType, identity) ==
    [object |-> TRUE, digest |-> digest, signature |-> signature,
     signatureType |-> signatureType, identity |-> identity]

\* headers = undefined
NoHeaders ==
    [object |-> FALSE,
     digest |-> DigestHeader("undefined", "", FALSE, UndefinedString),
     signature |-> SignatureHeader("undefined", UndefinedString),
     signatureType |-> TextHeader("undefined", ""),
     identity |-> TextHeader("undefined", "")]

\* !v for a header value v whose string form has text t
Falsy(type, isEmpty) == type = "undefined" \/ (type = "string" /\ isEmpty)

\* headers.digest.split('=')[1], for a string
DigestHash(digest) == IF digest.eq THEN digest.hash ELSE UndefinedString

(***************************************************************************)
(* The trust store: identity -> {publicKey, domains, networks}.            *)
(***************************************************************************)
TrustedKey(k, domains, networks) ==
    [publicKey |-> PublicKey(k), domains |-> domains, networks |-> networks]

TrustStore ==
    [id \in {"id1", "id2"} |->
        IF id = "id1" THEN TrustedKey("k1", {"merchant.example"}, {"main"})
        ELSE TrustedKey("k2", {"shop.example", "evil.example"}, {"main", "test"})]

WideTrustStore ==
    [id \in {"id1"} |-> TrustedKey("k1", {"merchant.example", "evil.example"}, {"main", "test"})]

TrustStores == {TrustStore, WideTrustStore}

\* Names that every object inherits from Object.prototype: trustedKeys[name] is
\* truthy for them although the store has no such entry.
InheritedProperties == {"constructor"}

(***************************************************************************)
(* Results: a returned object or a thrown error.                           *)
(***************************************************************************)
Returned(requestUrl, responseData, keyData) ==
    [ok |-> TRUE, error |-> "", detail |-> <<>>,
     requestUrl |-> requestUrl, responseData |-> responseData, keyData |-> keyData]

Thrown(error, detail) ==
    [ok |-> FALSE, error |-> error, detail |-> detail,
     requestUrl |-> <<>>, responseData |-> <<>>, keyData |-> {}]

NoResult == Thrown("none", <<>>)

(***************************************************************************)
(* verifyResponse                                                          *)
(***************************************************************************)
DigestMatches_Skipped(hash, rawBody) == TRUE

\* hash !== actualHash is false
DigestMatches(hash, rawBody) == hash = Sha256Hex(rawBody)

DomainTrusted_Skipped(keyData, host) == TRUE

\* keyData.domains.includes(host)
DomainTrusted(keyData, host) == host \in keyData.domains

NetworkTrusted_Never(keyData, checkNetwork, responseData) == TRUE

NetworkTrusted_Always(keyData, checkNetwork, responseData) ==
    responseData.network \in keyData.networks

\* !(checkNetwork && !keyData.networks.includes(responseData.network))
NetworkTrusted(keyData, checkNetwork, responseData) ==
    ~checkNetwork \/ responseData.network \in keyData.networks

\* The checks of verifyResponse after the headers were read, in the order of the code.
VerifyHeaders(requestUrl, rawBody, responseData, headers, checkNetwork, keys) ==
    LET hash == DigestHash(headers.digest)
        signature == headers.signature
        signatureType == headers.signatureType
        identity == headers.identity
        host == UrlParse(requestUrl).hostname
    IN
    IF host = "null" THEN Thrown("Invalid requestUrl", <<>>)
    ELSE IF Falsy(signatureType.type, signatureType.text = "")
        THEN Thrown("Response missing x-signature-type header", <<>>)
    ELSE IF signatureType.type # "string"
        THEN Thrown("Invalid x-signature-type header", <<>>)
    ELSE IF signatureType.text # "ecc"
        THEN Thrown("Unknown signature type", <<>>)
    ELSE IF Falsy(signature.type, signature.s = HexString(<<>>, ""))
        THEN Thrown("Response missing signature header", <<>>)
    ELSE IF signature.type # "string"
        THEN Thrown("Invalid signature header", <<>>)
    ELSE IF Falsy(identity.type, identity.text = "")
        THEN Thrown("Response missing x-identity header", <<>>)
    ELSE IF identity.type # "string"
        THEN Thrown("Invalid identity header", <<>>)
    ELSE IF identity.text \notin DOMAIN keys \cup InheritedProperties
        THEN Thrown("Response signed by unknown key", <<>>)
    ELSE IF ~DigestMatches(hash, rawBody)
        THEN Thrown("Response body hash does not match digest header", <<>>)
    \* keyData.domains is undefined
    ELSE IF identity.text \notin DOMAIN keys THEN Thrown("TypeError", <<>>)
    ELSE
        LET keyData == keys[identity.text] IN
        IF ~DomainTrusted(keyData, host)
            THEN Thrown("The key on the response is not trusted for domain", <<>>)
        ELSE IF checkNetwork /\ responseData.type = "null"
            THEN Thrown("TypeError", <<>>)
        ELSE IF ~NetworkTrusted(keyData, checkNetwork, responseData)
            THEN Thrown("The key on the response is not trusted for transactions on the network", <<>>)
        ELSE IF Secp256k1Throws(BufferFromHex(signature.s))
            THEN Thrown("secp256k1 assertion", <<>>)
        ELSE IF ~Secp256k1Verify(BufferFromHex(hash), BufferFromHex(signature.s),
                                 BufferFromHex(keyData.publicKey))
            THEN Thrown("Response signature invalid", <<>>)
        ELSE Returned(<<requestUrl>>, <<responseData>>, {keyData})

VerifyResponse_BypassLate(requestUrl, rawBody, headers, checkNetwork, unsafeBypassValidation, keys) ==
    IF requestUrl = EmptyUrl THEN Thrown("Parameter requestUrl is required", <<>>)
    ELSE IF rawBody = <<>> THEN Thrown("Parameter rawBody is required", <<>>)
    ELSE IF ~headers.object THEN Thrown("Parameter headers is required", <<>>)
    ELSE IF ~JsonValid(rawBody) THEN Thrown("Invalid JSON in response body", <<>>)
    ELSE IF headers.digest.type # "string" THEN Thrown("TypeError", <<>>)
    ELSE IF unsafeBypassValidation
        THEN Returned(<<requestUrl>>, <<JsonParse(rawBody)>>, {})
    ELSE VerifyHeaders(requestUrl, rawBody, JsonParse(rawBody), headers, checkNetwork, keys)

VerifyResponse(requestUrl, rawBody, headers, checkNetwork, unsafeBypassValidation, keys) ==
    IF requestUrl = EmptyUrl THEN Thrown("Parameter requestUrl is required", <<>>)
    ELSE IF rawBody = <<>> THEN Thrown("Parameter rawBody is required", <<>>)
    ELSE IF ~headers.object THEN Thrown("Parameter headers is required", <<>>)
    ELSE IF ~JsonValid(rawBody) THEN Thrown("Invalid JSON in response body", <<>>)
    ELSE IF unsafeBypassValidation
        THEN Returned(<<requestUrl>>, <<JsonParse(rawBody)>>, {})
    \* headers.digest.split('=') of a value that is undefined or has no split method
    ELSE IF headers.digest.type # "string" THEN Thrown("TypeError", <<>>)
    ELSE VerifyHeaders(requestUrl, rawBody, JsonParse(rawBody), headers, checkNetwork, keys)

(***************************************************************************)
(* The inputs of the model.                                                *)
(***************************************************************************)
MainBody == <<"{", "m", "}">>
TestBody == <<"{", "t", "}">>
OtherBody(body) == IF body = TestBody THEN MainBody ELSE TestBody

DigestValues(body) ==
    { DigestHeader("undefined", "", FALSE, UndefinedString),
      DigestHeader("array", "", FALSE, UndefinedString),
      DigestHeader("string", "sha-256", FALSE, UndefinedString),
      DigestHeader("string", "sha-256", TRUE, Sha256Hex(body)),
      DigestHeader("string", "sha-256", TRUE, Sha256Hex(OtherBody(body))) }

SignatureValues(body) ==
    { SignatureHeader("undefined", UndefinedString),
      SignatureHeader("array", UndefinedString),
      SignatureHeader("string", HexString(ShortBytes, "")),
      SignatureHeader("string", HexString(Sign("k1", BufferFromHex(Sha256Hex(body))), "zz")),
      SignatureHeader("string", HexString(Sign("k1", BufferFromHex(Sha256Hex(OtherBody(body)))), "")) }
    \cup { SignatureHeader("string", HexString(Sign(k, BufferFromHex(Sha256Hex(body))), ""))
             : k \in PrivateKeys }

SignatureTypeValues ==
    { TextHeader("undefined", ""), TextHeader("array", ""),
      TextHeader("string", "ecc"), TextHeader("string", "rsa") }

IdentityValues ==
    { TextHeader("undefined", ""), TextHeader("array", ""),
      TextHeader("string", "id1"), TextHeader("string", "id2"),
      TextHeader("string", "nobody"), TextHeader("string", "constructor") }

\* The headers a server holding k1 (identity id1) sends with body.
CanonicalHeaders(body) ==
    HeaderMap(DigestHeader("string", "sha-256", TRUE, Sha256Hex(body)),
              SignatureHeader("string", HexString(Sign("k1", BufferFromHex(Sha256Hex(body))), "")),
              TextHeader("string", "ecc"),
              TextHeader("string", "id1"))

Defects(h, body) ==
    LET c == CanonicalHeaders(body) IN
    (IF h.digest = c.digest THEN 0 ELSE 1) + (IF h.signature = c.signature THEN 0 ELSE 1)
    + (IF h.signatureType = c.signatureType THEN 0 ELSE 1)
    + (IF h.identity = c.identity THEN 0 ELSE 1)

\* The header maps of the model that may come with each body.
HeaderMaps ==
    [ body \in Bodies |->
        { h \in { HeaderMap(d, s, t, i) : d \in DigestValues(body), s \in SignatureValues(body),
                                          t \in SignatureTypeValues, i \in IdentityValues } :
            Defects(h, body) <= MaxDefects } ]

Statuses == {StatusOk, 404}
Chains == {"BTC"}
Currencies == {"BTC"}

(***************************************************************************)
(* State.                                                                  *)
(***************************************************************************)
Operation(name, paymentUrl, url, bypass) ==
    [name |-> name, paymentUrl |-> paymentUrl, url |-> url, unsafeBypassValidation |-> bypass]

NoOperation == Operation("none", EmptyUrl, EmptyUrl, FALSE)

Call(invoked, status, requestUrl, rawBody, headers, checkNetwork, bypass) ==
    [invoked |-> invoked, status |-> status, requestUrl |-> requestUrl, rawBody |-> rawBody,
     headers |-> headers, checkNetwork |-> checkNetwork, unsafeBypassValidation |-> bypass]

NoCall == Call(FALSE, 0, EmptyUrl, <<>>, NoHeaders, FALSE, FALSE)

(***************************************************************************)
(* The example wallet: its configuration and the values main works on.     *)
(***************************************************************************)
\* The chains with an entry in config.rpcServers.
RpcServers == {"BTC", "BCH"}

PaymentOption(chain, currency) == [chain |-> chain, currency |-> currency]
NoOption == PaymentOption("", "")

\* The payment options a merchant can offer, and the lists of them.
PaymentOptions ==
    { PaymentOption("BTC", "BTC"), PaymentOption("BCH", "BCH"),
      PaymentOption("ETH", "ETH"), PaymentOption("ETH", "GUSD") }
OptionLists == UNION { [1..n -> PaymentOptions] : n \in 0..MaxOptions }

\* The promises of the final step.
TaskNames == {"sendSignedPayment", "broadcastP2P"}

\* main has not run yet.
MainStart ==
    /\ mpc = "prompt"
    /\ paymentOptions = <<>>
    /\ cursor = 1
    /\ index = 1
    /\ choices = <<>>
    /\ unavailable = <<>>
    /\ printed = <<>>
    /\ answer = 0
    /\ choice = NoOption
    /\ rpcUrl = ""
    /\ signPayment = <<>>
    /\ started = <<>>
    /\ succeeded = {}
    /\ tasks = [t \in TaskNames |-> "none"]
    /\ settled = <<>>
    /\ mainError = "none"

Init ==
    /\ MainStart
    /\ trustedKeys \in TrustStores
    /\ options = [agent |-> FALSE, rejectUnauthorized |-> FALSE]
    /\ pc = "idle"
    /\ op = NoOperation
    /\ sent = <<>>
    /\ call = NoCall
    /\ result = NoResult
    /\ tampered = FALSE

(***************************************************************************)
(* _asyncRequest: the options handed to https.request.                     *)
(***************************************************************************)
RequestOptions(method, url, contentType, body) ==
    LET parsedUrl == UrlParse(url) IN
    [transport |-> "https", agent |-> options.agent,
     rejectUnauthorized |-> options.rejectUnauthorized,
     method |-> method, hostname |-> parsedUrl.hostname, path |-> parsedUrl.path,
     headers |-> [type |-> contentType, version |-> PayProVersion],
     body |-> body]

AsyncRequest_Assigning(name, paymentUrl, url, bypass, method, contentType, body) ==
    /\ pc' = "awaiting"
    /\ op' = Operation(name, paymentUrl, url, bypass)
    /\ sent' = Append(sent, RequestOptions(method, url, contentType, body))
    /\ options' = RequestOptions(method, url, contentType, body)
    /\ UNCHANGED <<trustedKeys, call, result, tampered>>

AsyncRequest_Twice(name, paymentUrl, url, bypass, method, contentType, body) ==
    /\ pc' = "awaiting"
    /\ op' = Operation(name, paymentUrl, url, bypass)
    /\ sent' = sent \o << RequestOptions(method, url, contentType, body),
                           RequestOptions(method, url, contentType, body) >>
    /\ UNCHANGED <<trustedKeys, options, call, result, tampered>>

AsyncRequest(name, paymentUrl, url, bypass, method, contentType, body) ==
    /\ pc' = "awaiting"
    /\ op' = Operation(name, paymentUrl, url, bypass)
    /\ sent' = Append(sent, RequestOptions(method, url, contentType, body))
    /\ UNCHANGED <<trustedKeys, options, call, result, tampered>>

(***************************************************************************)
(* The client operations, up to the request.                               *)
(***************************************************************************)
\* !(protocol !== 'http:' && protocol !== 'https:')
IsWebUrl(paymentUrlObject) == paymentUrlObject.protocol \in {"http:", "https:"}

ResolvePaymentUrl_Original(paymentUrl) == paymentUrl

\* The URL getPaymentOptions requests, when it requests one.
ResolvePaymentUrl(paymentUrl) ==
    LET paymentUrlObject == UrlParse(paymentUrl) IN
    IF IsWebUrl(paymentUrlObject) THEN paymentUrl ELSE QueryR(paymentUrlObject.query)

GetPaymentOptions ==
    /\ pc = "idle"
    /\ \E paymentUrl \in PlainUrls \cup PaymentUris, bypass \in BOOLEAN :
        LET paymentUrlObject == UrlParse(paymentUrl) IN
        IF ~IsWebUrl(paymentUrlObject) /\ ~HasR(paymentUrlObject.query)
        THEN /\ pc' = "done"
             /\ op' = Operation("getPaymentOptions", paymentUrl, paymentUrl, bypass)
             /\ result' = Thrown("Invalid payment protocol url", <<>>)
             /\ UNCHANGED <<trustedKeys, options, sent, call, tampered>>
        ELSE AsyncRequest("getPaymentOptions", paymentUrl, ResolvePaymentUrl(paymentUrl), bypass,
                          "GET", "Accept: application/payment-options", <<>>)

SelectPaymentOption ==
    /\ pc = "idle"
    /\ \E paymentUrl \in PlainUrls, chain \in Chains, currency \in Currencies, bypass \in BOOLEAN :
        AsyncRequest("selectPaymentOption", paymentUrl, paymentUrl, bypass,
                     "POST", "Content-Type: application/payment-request",
                     <<[chain |-> chain, currency |-> currency, transactions |-> <<>>]>>)

VerifyPaymentRequest ==
    /\ pc = "idle"
    /\ \E paymentUrl \in PlainUrls, chain \in Chains, currency \in Currencies, bypass \in BOOLEAN :
        AsyncRequest("verifyPaymentRequest", paymentUrl, paymentUrl, bypass,
                     "POST", "Content-Type: application/payment-verification",
                     <<[chain |-> chain, currency |-> currency, transactions |-> <<"unsigned">>]>>)

SendSignedPayment ==
    /\ pc = "idle"
    /\ \E paymentUrl \in PlainUrls, chain \in Chains, currency \in Currencies, bypass \in BOOLEAN :
        AsyncRequest("sendSignedPayment", paymentUrl, paymentUrl, bypass,
                     "POST", "Content-Type: application/payment",
                     <<[chain |-> chain, currency |-> currency, transactions |-> <<"signed">>]>>)

(***************************************************************************)
(* The client operations, from the response on.                            *)
(***************************************************************************)
CheckNetworkOf_Never(name) == FALSE

\* The checkNetwork argument each operation passes to verifyResponse.
CheckNetworkOf(name) == name = "selectPaymentOption"

VerifiesResponse_All(name) == TRUE

VerifiedUrl_Original(operation) == operation.paymentUrl

\* The URL an operation hands to verifyResponse: the one it requested.
VerifiedUrl(operation) == operation.url

\* The operations that hand the response to verifyResponse.
VerifiesResponse(name) == name \in {"getPaymentOptions", "selectPaymentOption", "sendSignedPayment"}

\* response.on('end') with statusCode 200, and the rest of the operation.
Respond ==
    /\ pc = "awaiting"
    /\ \E rawBody \in Bodies :
        \E headers \in HeaderMaps[rawBody] :
            /\ pc' = "done"
            /\ IF VerifiesResponse(op.name)
               THEN /\ call' = Call(TRUE, StatusOk, VerifiedUrl(op), rawBody, headers,
                                    CheckNetworkOf(op.name), op.unsafeBypassValidation)
                    /\ result' = VerifyResponse(VerifiedUrl(op), rawBody, headers,
                                                CheckNetworkOf(op.name),
                                                op.unsafeBypassValidation, trustedKeys)
               ELSE /\ call' = Call(FALSE, StatusOk, op.url, rawBody, headers, FALSE, FALSE)
                    /\ result' = IF JsonValid(rawBody)
                                 THEN Returned(<<>>, <<JsonParse(rawBody)>>, {})
                                 ELSE Thrown("SyntaxError", <<>>)
            /\ UNCHANGED <<trustedKeys, options, op, sent, tampered>>

RespondError_Resolving ==
    /\ pc = "awaiting"
    /\ \E status \in Statuses \ {StatusOk}, rawBody \in Bodies :
        /\ pc' = "done"
        /\ call' = Call(VerifiesResponse(op.name), status, op.url, rawBody,
                        CanonicalHeaders(rawBody), CheckNetworkOf(op.name),
                        op.unsafeBypassValidation)
        /\ result' = IF VerifiesResponse(op.name)
                     THEN VerifyResponse(op.url, rawBody, CanonicalHeaders(rawBody),
                                         CheckNetworkOf(op.name), op.unsafeBypassValidation,
                                         trustedKeys)
                     ELSE IF JsonValid(rawBody)
                          THEN Returned(<<>>, <<JsonParse(rawBody)>>, {})
                          ELSE Thrown("SyntaxError", <<>>)
        /\ UNCHANGED <<trustedKeys, options, op, sent, tampered>>

\* response.on('end') with another status code: reject(new Error(body.join(''))).
RespondError ==
    /\ pc = "awaiting"
    /\ \E status \in Statuses \ {StatusOk}, rawBody \in Bodies :
        /\ pc' = "done"
        /\ call' = Call(FALSE, status, op.url, rawBody, CanonicalHeaders(rawBody), FALSE, FALSE)
        /\ result' = Thrown("Error", rawBody)
        /\ UNCHANGED <<trustedKeys, options, op, sent, tampered>>

\* request.on('error'): reject(err).
RequestError ==
    /\ pc = "awaiting"
    /\ pc' = "done"
    /\ result' = Thrown("request error", <<>>)
    /\ UNCHANGED <<trustedKeys, options, op, sent, call, tampered>>

\* A direct call of the public method verifyResponse.
VerifyResponseCall ==
    /\ pc = "idle"
    /\ \E requestUrl \in PlainUrls \cup {EmptyUrl}, rawBody \in Bodies,
          checkNetwork \in BOOLEAN, bypass \in BOOLEAN :
        \E headers \in HeaderMaps[rawBody] \cup {NoHeaders} :
            /\ pc' = "done"
            /\ op' = Operation("verifyResponse", requestUrl, requestUrl, bypass)
            /\ call' = Call(TRUE, StatusOk, requestUrl, rawBody, headers, checkNetwork, bypass)
            /\ result' = VerifyResponse(requestUrl, rawBody, headers, checkNetwork, bypass,
                                        trustedKeys)
            /\ UNCHANGED <<trustedKeys, options, sent, tampered>>

\* verifyResponse called again on an accepted response, one byte of rawBody changed
\* and everything else as before.
TamperBody ==
    /\ pc = "done"
    /\ op.name = "verifyResponse"
    /\ ~call.unsafeBypassValidation
    /\ result.ok
    /\ \E i \in 1..Len(call.rawBody), b \in Bytes :
        /\ b # call.rawBody[i]
        /\ call' = [call EXCEPT !.rawBody[i] = b]
        /\ result' = VerifyResponse(call.requestUrl, call'.rawBody, call.headers,
                                    call.checkNetwork, call.unsafeBypassValidation, trustedKeys)
        /\ tampered' = TRUE
        /\ UNCHANGED <<trustedKeys, options, pc, op, sent>>

Next ==
    \/ GetPaymentOptions /\ UNCHANGED mainVars
    \/ SelectPaymentOption /\ UNCHANGED mainVars
    \/ VerifyPaymentRequest /\ UNCHANGED mainVars
    \/ SendSignedPayment /\ UNCHANGED mainVars
    \/ Respond /\ UNCHANGED mainVars
    \/ RespondError /\ UNCHANGED mainVars
    \/ RequestError /\ UNCHANGED mainVars
    \/ VerifyResponseCall /\ UNCHANGED mainVars
    \/ TamperBody /\ UNCHANGED mainVars

Spec == Init /\ [][Next]_vars

(***************************************************************************)
(* The example wallet's main (lines 20-137) and broadcastP2P (268-290).    *)
(* A call of a client operation is recorded in started when it is made;    *)
(* what it answers is a choice between fulfilment and rejection.           *)
(***************************************************************************)
Started(name, option) ==
    [name |-> name, chain |-> option.chain, currency |-> option.currency]

\* main's promise is rejected with the error of the step named.
Reject(error) == mpc' = "rejected" /\ mainError' = error

\* Lines 21-22: the URI is read and getPaymentOptions is called.
Prompt ==
    /\ mpc = "prompt"
    /\ mpc' = "getPaymentOptions"
    /\ started' = Append(started, Started("getPaymentOptions", NoOption))
    /\ UNCHANGED <<paymentOptions, cursor, index, choices, unavailable, printed, answer,
                   choice, rpcUrl, signPayment, succeeded, tasks, settled, mainError>>

\* Lines 22-28: getPaymentOptions fulfils with a list of options.
GetPaymentOptionsReturns ==
    /\ mpc = "getPaymentOptions"
    /\ \E list \in OptionLists : paymentOptions' = list
    /\ mpc' = "listing"
    /\ succeeded' = succeeded \cup {"getPaymentOptions"}
    /\ index' = 1
    /\ choices' = <<>>
    /\ unavailable' = <<>>
    /\ UNCHANGED <<cursor, printed, answer, choice, rpcUrl, signPayment, started, tasks,
                   settled, mainError>>

AfterUnavailable_Continue == "listing"

\* Line 32: return unavailable.push(...) ends main, fulfilling its promise.
AfterUnavailable == "fulfilled"

\* Lines 30-36: one iteration of the loop over the payment options.
ListOption ==
    /\ mpc = "listing"
    /\ cursor <= Len(paymentOptions)
    /\ cursor' = cursor + 1
    /\ IF paymentOptions[cursor].chain \notin RpcServers
       THEN /\ unavailable' = Append(unavailable, paymentOptions[cursor])
            /\ mpc' = AfterUnavailable
            /\ UNCHANGED <<index, choices, printed>>
       ELSE /\ choices' = Append(choices, index)
            /\ printed' = Append(printed, [number |-> index, option |-> paymentOptions[cursor]])
            /\ index' = index + 1
            /\ UNCHANGED <<mpc, unavailable>>
    /\ UNCHANGED <<paymentOptions, answer, choice, rpcUrl, signPayment, started, succeeded,
                   tasks, settled, mainError>>

\* Lines 46-55: promptly.choose answers one of choices; the option at that place of
\* the list is taken, the RPC globals are set from its chain's configuration and
\* selectPaymentOption is called.  JavaScript's paymentOptions[choice - 1] is the
\* element (choice - 1) + 1 of the sequence.
Choose ==
    /\ mpc = "listing"
    /\ cursor > Len(paymentOptions)
    /\ \E k \in 1..Len(choices) :
        LET place == (choices[k] - 1) + 1 IN
        /\ answer' = choices[k]
        /\ IF place \notin 1..Len(paymentOptions)
           THEN /\ Reject("TypeError")
                /\ UNCHANGED <<choice, rpcUrl, started>>
           ELSE /\ choice' = paymentOptions[place]
                /\ IF choice'.chain \notin RpcServers
                   THEN /\ Reject("TypeError")
                        /\ UNCHANGED <<rpcUrl, started>>
                   ELSE /\ rpcUrl' = choice'.chain
                        /\ started' = Append(started, Started("selectPaymentOption", choice'))
                        /\ mpc' = "selectPaymentOption"
                        /\ UNCHANGED mainError
    /\ UNCHANGED <<paymentOptions, cursor, index, choices, unavailable, printed, signPayment,
                   succeeded, tasks, settled>>

\* Lines 55-76: selectPaymentOption fulfils and the RPC calls that build the
\* transaction begin.
SelectPaymentOptionReturns ==
    /\ mpc = "selectPaymentOption"
    /\ mpc' = "transaction"
    /\ succeeded' = succeeded \cup {"selectPaymentOption"}
    /\ UNCHANGED <<paymentOptions, cursor, index, choices, unavailable, printed, answer,
                   choice, rpcUrl, signPayment, started, tasks, settled, mainError>>

\* Lines 76-93: the transaction is created, funded, signed and decoded, and
\* verifyPaymentRequest is called.
TransactionBuilt ==
    /\ mpc = "transaction"
    /\ mpc' = "verifyPaymentRequest"
    /\ succeeded' = succeeded \cup {"transaction"}
    /\ started' = Append(started, Started("verifyPaymentRequest", choice))
    /\ UNCHANGED <<paymentOptions, cursor, index, choices, unavailable, printed, answer,
                   choice, rpcUrl, signPayment, tasks, settled, mainError>>

\* Lines 93-110: verifyPaymentRequest fulfils and the user is asked to confirm.
VerifyPaymentRequestReturns ==
    /\ mpc = "verifyPaymentRequest"
    /\ mpc' = "confirm"
    /\ succeeded' = succeeded \cup {"verifyPaymentRequest"}
    /\ UNCHANGED <<paymentOptions, cursor, index, choices, unavailable, printed, answer,
                   choice, rpcUrl, signPayment, started, tasks, settled, mainError>>

\* The promise main awaits at lines 22, 55, 76-79 or 93 is rejected; main rethrows.
AwaitRejects ==
    /\ mpc \in {"getPaymentOptions", "selectPaymentOption", "transaction",
                "verifyPaymentRequest"}
    /\ Reject(mpc)
    /\ UNCHANGED <<paymentOptions, cursor, index, choices, unavailable, printed, answer,
                   choice, rpcUrl, signPayment, started, succeeded, tasks, settled>>

Aborts_Never(confirmed) == FALSE

\* Line 111: if (!signPayment) throw new Error('User aborted').
Aborts(confirmed) == ~confirmed

PromiseAllTasks_SendOnly == <<"sendSignedPayment">>

\* Lines 120-132: the calls in the array handed to Promise.all, in order.
PromiseAllTasks == <<"sendSignedPayment", "broadcastP2P">>

\* Lines 110-132: the user answers; unless main aborts, both calls of the final
\* step are made before main awaits Promise.all.
Confirm ==
    /\ mpc = "confirm"
    /\ \E confirmed \in BOOLEAN :
        /\ signPayment' = <<confirmed>>
        /\ IF Aborts(confirmed)
           THEN /\ Reject("User aborted")
                /\ UNCHANGED <<started, tasks>>
           ELSE /\ mpc' = "sending"
                /\ started' = started \o [i \in 1..Len(PromiseAllTasks) |->
                                             Started(PromiseAllTasks[i], choice)]
                /\ tasks' = [t \in TaskNames |->
                                IF \E i \in 1..Len(PromiseAllTasks) : PromiseAllTasks[i] = t
                                THEN "pending" ELSE "none"]
                /\ UNCHANGED mainError
    /\ UNCHANGED <<paymentOptions, cursor, index, choices, unavailable, printed, answer,
                   choice, rpcUrl, succeeded, settled>>

\* One promise of the final step settles.  Promise.all rejects main with the first
\* rejection and fulfils it when every promise has fulfilled; a promise that settles
\* after main was rejected changes nothing for main.
Settle(task, outcome) ==
    /\ tasks[task] = "pending"
    /\ tasks' = [tasks EXCEPT ![task] = outcome]
    /\ settled' = Append(settled, [task |-> task, outcome |-> outcome])
    /\ IF mpc # "sending" THEN UNCHANGED <<mpc, mainError>>
       ELSE IF outcome = "rejected" THEN Reject(task)
       ELSE IF \A t \in TaskNames : tasks'[t] \in {"none", "fulfilled"}
            THEN mpc' = "fulfilled" /\ UNCHANGED mainError
       ELSE UNCHANGED <<mpc, mainError>>
    /\ UNCHANGED <<paymentOptions, cursor, index, choices, unavailable, printed, answer,
                   choice, rpcUrl, signPayment, started, succeeded>>

\* client.sendSignedPayment answers.
SendSignedPaymentSettles ==
    \E outcome \in {"fulfilled", "rejected"} : Settle("sendSignedPayment", outcome)

\* broadcastP2P (lines 268-290): the sendrawtransaction command succeeds with a
\* result, or fails, or answers without a result.
BroadcastP2PSettles ==
    \E outcome \in {"fulfilled", "rejected"} : Settle("broadcastP2P", outcome)

MainNext ==
    \/ Prompt /\ UNCHANGED clientVars
    \/ GetPaymentOptionsReturns /\ UNCHANGED clientVars
    \/ ListOption /\ UNCHANGED clientVars
    \/ Choose /\ UNCHANGED clientVars
    \/ SelectPaymentOptionReturns /\ UNCHANGED clientVars
    \/ TransactionBuilt /\ UNCHANGED clientVars
    \/ VerifyPaymentRequestReturns /\ UNCHANGED clientVars
    \/ AwaitRejects /\ UNCHANGED clientVars
    \/ Confirm /\ UNCHANGED clientVars
    \/ SendSignedPaymentSettles /\ UNCHANGED clientVars
    \/ BroadcastP2PSettles /\ UNCHANGED clientVars

SpecMain == Init /\ [][MainNext]_vars

(***************************************************************************)
(* Vocabulary of the properties.                                           *)
(***************************************************************************)
ClientOperations ==
    {"getPaymentOptions", "selectPaymentOption", "verifyPaymentRequest", "sendSignedPayment"}

AuthenticatingOperations == {"getPaymentOptions", "selectPaymentOption", "sendSignedPayment"}

\* An operation has finished with verifyResponse called without bypass.
VerifiedCall == pc = "done" /\ call.invoked /\ ~call.unsafeBypassValidation

\* The digest header is a string whose hash part is the SHA-256 hex digest of the body.
DigestIsOfBody ==
    /\ call.headers.digest.type = "string"
    /\ call.headers.digest.eq
    /\ call.headers.digest.hash = Sha256Hex(call.rawBody)

\* x-identity is a string that names an entry of the trust store.
IdentityNamesEntry ==
    /\ call.headers.identity.type = "string"
    /\ call.headers.identity.text \in DOMAIN trustedKeys

NamedEntry == trustedKeys[call.headers.identity.text]

\* The private key whose public key the named entry holds.
NamedPrivateKey == CHOOSE k \in PrivateKeys : PublicKey(k) = NamedEntry.publicKey

\* The bytes of the signature header are the signature, by the named identity's
\* private key, of the bytes of the SHA-256 digest of the body.
SignatureIsOfNamedIdentity ==
    /\ call.headers.signature.type = "string"
    /\ call.headers.signature.s.hex = Sign(NamedPrivateKey, Sha256Hex(call.rawBody).hex)

RequestHost == UrlParse(call.requestUrl).hostname

\* Everything verifyResponse checks before the digest comparison passes.
PassesUpToIdentity ==
    /\ call.requestUrl # EmptyUrl
    /\ call.headers.object
    /\ JsonValid(call.rawBody)
    /\ call.headers.digest.type = "string"
    /\ RequestHost # "null"
    /\ call.headers.signatureType = TextHeader("string", "ecc")
    /\ call.headers.signature.type = "string"
    /\ IdentityNamesEntry

\* C1: without bypass, getPaymentOptions, selectPaymentOption, sendSignedPayment and
\* verifyResponse succeed only if the digest header's hash is the SHA-256 hex digest of
\* the raw body and the signature verifies over it under the named entry's public key.
C1_SuccessOnlyIfHashAndSignaturePass ==
    (VerifiedCall /\ op.name \in AuthenticatingOperations \cup {"verifyResponse"} /\ result.ok)
        => /\ DigestIsOfBody
           /\ IdentityNamesEntry
           /\ SignatureIsOfNamedIdentity

C1_Witness ==
    /\ VerifiedCall
    /\ op.name = "sendSignedPayment"
    /\ result.ok
    /\ DigestIsOfBody

\* C2: for each of the four client operations, a successful result of a call without
\* bypass carries the trust-store record that authenticated the response.  Stated for
\* requests to a URL that has a host.
C2_SuccessCarriesMatchedKey ==
    (pc = "done" /\ op.name \in ClientOperations /\ ~op.unsafeBypassValidation /\ result.ok
        /\ UrlParse(op.url).hostname # "null")
        => /\ call.headers.identity.type = "string"
           /\ call.headers.identity.text \in DOMAIN trustedKeys
           /\ result.keyData = {trustedKeys[call.headers.identity.text]}

\* C3 as claimed: every response an authenticating operation accepts without bypass
\* has the request host in the identity's domains and its network in the identity's
\* networks.
C3_DomainAndNetworkAlwaysChecked ==
    (VerifiedCall /\ op.name \in AuthenticatingOperations /\ result.ok)
        => /\ IdentityNamesEntry
           /\ RequestHost \in NamedEntry.domains
           /\ JsonParse(call.rawBody).network \in NamedEntry.networks

\* C3 amended: every response an authenticating operation accepts without bypass has
\* the request host in the identity's domains; its network is in the identity's
\* networks when the operation is selectPaymentOption (checkNetwork = true).
C3_DomainAlwaysNetworkWhenSelecting ==
    (VerifiedCall /\ op.name \in AuthenticatingOperations /\ result.ok)
        => /\ IdentityNamesEntry
           /\ RequestHost \in NamedEntry.domains
           /\ op.name = "selectPaymentOption"
                => JsonParse(call.rawBody).network \in NamedEntry.networks

C3_Witness ==
    /\ VerifiedCall
    /\ op.name = "selectPaymentOption"
    /\ result.ok
    /\ RequestHost \in NamedEntry.domains
    /\ JsonParse(call.rawBody).network \in NamedEntry.networks

\* C4 as claimed: without bypass, a request host outside the named entry's domains
\* makes verifyResponse fail with the untrusted-domain error.  Stated for the calls
\* most favourable to the claim: the body parses, the URL has a host and the four
\* headers are well-formed.
C4_UntrustedDomainError ==
    (VerifiedCall /\ PassesUpToIdentity /\ RequestHost \notin NamedEntry.domains)
        => /\ ~result.ok
           /\ result.error = "The key on the response is not trusted for domain"

\* C4 amended: without bypass, a request host outside the named entry's domains never
\* gives success, and gives the untrusted-domain error whenever the earlier steps pass
\* (the body parses, the headers are well-formed, the URL has a host, the digest
\* matches), whether or not the signature is valid.
C4_UntrustedDomainNeverAccepted ==
    (VerifiedCall /\ IdentityNamesEntry /\ RequestHost \notin NamedEntry.domains)
        => /\ ~result.ok
           /\ (PassesUpToIdentity /\ DigestIsOfBody)
                => result.error = "The key on the response is not trusted for domain"

C4_Witness ==
    /\ VerifiedCall
    /\ IdentityNamesEntry
    /\ RequestHost \notin NamedEntry.domains
    /\ DigestIsOfBody
    /\ SignatureIsOfNamedIdentity
    /\ result.error = "The key on the response is not trusted for domain"

\* C5: with checkNetwork and without bypass, verifyResponse never accepts a response
\* whose network is outside the matched key's networks; selectPaymentOption always
\* verifies with checkNetwork, so it never accepts one either.
C5_UntrustedNetworkNeverAccepted ==
    /\ (VerifiedCall /\ call.checkNetwork /\ result.ok)
          => /\ IdentityNamesEntry
             /\ JsonParse(call.rawBody).network \in NamedEntry.networks
    /\ (pc = "done" /\ op.name = "selectPaymentOption" /\ call.invoked)
          => call.checkNetwork
    /\ (pc = "done" /\ op.name = "selectPaymentOption" /\ ~op.unsafeBypassValidation
          /\ result.ok)
          => /\ IdentityNamesEntry
             /\ JsonParse(call.rawBody).network \in NamedEntry.networks

C5_Witness ==
    /\ VerifiedCall
    /\ op.name = "selectPaymentOption"
    /\ PassesUpToIdentity
    /\ DigestIsOfBody
    /\ RequestHost \in NamedEntry.domains
    /\ SignatureIsOfNamedIdentity
    /\ JsonParse(call.rawBody).network \notin NamedEntry.networks
    /\ result.error = "The key on the response is not trusted for transactions on the network"

\* C6 as claimed: an accepted input with one byte of rawBody changed and the headers
\* left as they were fails with the digest-mismatch error.
C6_TamperedBodyDigestMismatch ==
    tampered
        => /\ ~result.ok
           /\ result.error = "Response body hash does not match digest header"

\* C6 amended: an accepted input with one byte of rawBody changed and the headers left
\* as they were fails: with the digest-mismatch error when the changed body still
\* parses as JSON, with the invalid-JSON error when it does not.
C6_TamperedBodyRejected ==
    tampered
        => /\ ~result.ok
           /\ result.error = IF JsonValid(call.rawBody)
                             THEN "Response body hash does not match digest header"
                             ELSE "Invalid JSON in response body"

C6_Witness ==
    /\ tampered
    /\ JsonValid(call.rawBody)
    /\ result.error = "Response body hash does not match digest header"

\* The signature header does not hold a signature made with the named identity's
\* private key over the digest.
SignatureNotOfNamedIdentity == IdentityNamesEntry /\ ~SignatureIsOfNamedIdentity

\* C7 as claimed: without bypass, when the digest matches the body and the signature
\* was not made by the named identity's private key, verifyResponse fails with the
\* signature-invalid error.  Stated for the calls most favourable to the claim: the
\* body parses, the URL has a host, the four headers are well-formed and the signature
\* header decodes to 64 bytes.
C7_ForgedSignatureError ==
    (VerifiedCall /\ PassesUpToIdentity /\ DigestIsOfBody /\ SignatureNotOfNamedIdentity
        /\ ~Secp256k1Throws(BufferFromHex(call.headers.signature.s)))
        => /\ ~result.ok
           /\ result.error = "Response signature invalid"

\* C7 amended: without bypass, when the digest matches the body and the signature was
\* not made by the named identity's private key, verifyResponse never succeeds; it
\* fails with the signature-invalid error when every other check passes and the
\* signature header decodes to 64 bytes.
C7_ForgedSignatureNeverAccepted ==
    (VerifiedCall /\ DigestIsOfBody /\ SignatureNotOfNamedIdentity)
        => /\ ~result.ok
           /\ ( /\ PassesUpToIdentity
                /\ RequestHost \in NamedEntry.domains
                /\ call.checkNetwork => JsonParse(call.rawBody).network \in NamedEntry.networks
                /\ ~Secp256k1Throws(BufferFromHex(call.headers.signature.s)) )
                => result.error = "Response signature invalid"

C7_Witness ==
    /\ VerifiedCall
    /\ DigestIsOfBody
    /\ SignatureNotOfNamedIdentity
    /\ call.headers.signature.type = "string"
    /\ call.headers.signature.s.hex = Sign("kx", Sha256Hex(call.rawBody).hex)
    /\ result.error = "Response signature invalid"

\* What verifyResponse gives under bypass, as a function of requestUrl and rawBody alone.
BypassOutcome(requestUrl, rawBody) ==
    IF requestUrl = EmptyUrl THEN Thrown("Parameter requestUrl is required", <<>>)
    ELSE IF rawBody = <<>> THEN Thrown("Parameter rawBody is required", <<>>)
    ELSE IF ~JsonValid(rawBody) THEN Thrown("Invalid JSON in response body", <<>>)
    ELSE Returned(<<requestUrl>>, <<JsonParse(rawBody)>>, {})

\* C8: under bypass the outcome of verifyResponse is a function of requestUrl and
\* rawBody alone, whatever the header map, the trust store and checkNetwork are, and
\* a success is {requestUrl, responseData} without a matched key.
C8_BypassDependsOnUrlAndBodyOnly ==
    (pc = "done" /\ call.invoked /\ call.unsafeBypassValidation /\ call.headers.object)
        => result = BypassOutcome(call.requestUrl, call.rawBody)

C8_Witness ==
    /\ pc = "done"
    /\ call.invoked
    /\ call.unsafeBypassValidation
    /\ call.headers.digest.type = "undefined"
    /\ call.headers.identity.text = "nobody"
    /\ trustedKeys = WideTrustStore
    /\ result.ok
    /\ result.keyData = {}

\* Exactly one of the four headers is missing or not a string, and nothing else is
\* wrong with the call.
OnlyBadHeader(name) ==
    LET c == CanonicalHeaders(call.rawBody) IN
    /\ VerifiedCall
    /\ call.requestUrl = MerchantUrl
    /\ JsonValid(call.rawBody)
    /\ call.headers.object
    /\ IF name = "digest" THEN call.headers.digest.type # "string"
                          ELSE call.headers.digest = c.digest
    /\ IF name = "signature" THEN call.headers.signature.type # "string"
                             ELSE call.headers.signature = c.signature
    /\ IF name = "x-signature-type" THEN call.headers.signatureType.type # "string"
                                    ELSE call.headers.signatureType = c.signatureType
    /\ IF name = "x-identity" THEN call.headers.identity.type # "string"
                              ELSE call.headers.identity = c.identity

\* The validation errors that name each header.
HeaderErrors(name) ==
    IF name = "digest" THEN {"Response missing digest header", "Invalid digest header"}
    ELSE IF name = "signature" THEN {"Response missing signature header", "Invalid signature header"}
    ELSE IF name = "x-signature-type"
        THEN {"Response missing x-signature-type header", "Invalid x-signature-type header"}
    ELSE {"Response missing x-identity header", "Invalid identity header"}

\* C9: without bypass, a header among digest, signature, x-signature-type and
\* x-identity that is missing or not a string makes verifyResponse fail with a
\* validation error that names that header.
C9_BadHeaderNamedInError ==
    \A name \in {"digest", "signature", "x-signature-type", "x-identity"} :
        OnlyBadHeader(name) => (~result.ok /\ result.error \in HeaderErrors(name))

\* The endpoint a URL string denotes, and the endpoint a request went to.
EndpointOf(u) ==
    [protocol |-> UrlParse(u).protocol, hostname |-> UrlParse(u).hostname, path |-> UrlParse(u).path]
EndpointSent(r) ==
    [protocol |-> IF r.transport = "https" THEN "https:" ELSE "http:",
     hostname |-> r.hostname, path |-> r.path]

IsPaymentUri(u) == UrlParse(u).protocol \notin {"http:", "https:"}

GetPaymentOptionsStarted == pc # "idle" /\ op.name = "getPaymentOptions"

\* C10 as claimed: getPaymentOptions on a URL that is not http(s) fails with the
\* invalid-payment-protocol-url error and sends nothing when there is no r parameter,
\* and sends exactly a GET to r, which is also the URL verified, when there is one;
\* an http(s) URL is requested as given.
C10_RequestsTheGivenUrl ==
    GetPaymentOptionsStarted =>
        IF IsPaymentUri(op.paymentUrl) /\ ~HasR(op.paymentUrl.r)
        THEN pc = "done" /\ sent = <<>> /\ result.error = "Invalid payment protocol url"
        ELSE LET U == IF IsPaymentUri(op.paymentUrl) THEN op.paymentUrl.r[1]
                      ELSE op.paymentUrl IN
             /\ Len(sent) = 1
             /\ sent[1].method = "GET"
             /\ EndpointSent(sent[1]) = EndpointOf(U)
             /\ call.invoked => call.requestUrl = U

\* C10 amended: as claimed, except that the GET goes to the host and path of the URL
\* over HTTPS whatever the URL's scheme is (an http URL is not requested over HTTP).
C10_RequestsTheGivenHostAndPath ==
    GetPaymentOptionsStarted =>
        IF IsPaymentUri(op.paymentUrl) /\ ~HasR(op.paymentUrl.r)
        THEN pc = "done" /\ sent = <<>> /\ result.error = "Invalid payment protocol url"
        ELSE LET U == IF IsPaymentUri(op.paymentUrl) THEN op.paymentUrl.r[1]
                      ELSE op.paymentUrl IN
             /\ Len(sent) = 1
             /\ sent[1].method = "GET"
             /\ sent[1].transport = "https"
             /\ sent[1].hostname = UrlParse(U).hostname
             /\ sent[1].path = UrlParse(U).path
             /\ call.invoked => call.requestUrl = U

C10_Witness ==
    /\ pc = "done"
    /\ op.name = "getPaymentOptions"
    /\ op.paymentUrl = PaymentUri(<<MerchantUrl>>)
    /\ Len(sent) = 1
    /\ sent[1].hostname = "merchant.example"
    /\ call.invoked
    /\ call.requestUrl = MerchantUrl
    /\ result.ok

\* C11: verifyResponse without bypass accepts every correctly built response: a body
\* that is valid JSON, the digest of the body, a signature of the digest by the key of
\* the entry K named by x-identity, x-signature-type ecc, the request host in
\* K.domains and, under checkNetwork, the network in K.networks give success with the
\* parsed body and K.
C11_ValidResponseAccepted ==
    ( /\ VerifiedCall
      /\ PassesUpToIdentity
      /\ DigestIsOfBody
      /\ SignatureIsOfNamedIdentity
      /\ RequestHost \in NamedEntry.domains
      /\ call.checkNetwork => JsonParse(call.rawBody).network \in NamedEntry.networks )
        => result = Returned(<<call.requestUrl>>, <<JsonParse(call.rawBody)>>, {NamedEntry})

C11_Witness ==
    /\ VerifiedCall
    /\ op.name = "verifyResponse"
    /\ call.requestUrl = EvilUrl
    /\ call.headers.identity.text = "id2"
    /\ call.checkNetwork
    /\ DigestIsOfBody
    /\ result = Returned(<<EvilUrl>>, <<JsonObject("test")>>, {TrustStore["id2"]})

\* A 200 response has arrived for the current operation.
ResponseArrived == pc = "done" /\ call.status = StatusOk

\* C12: verifyPaymentRequest returns {responseData: parsed body} for every 200
\* response whose body parses, whatever the headers, the trust store and the bypass
\* argument are, and never calls verifyResponse; sendSignedPayment succeeds without
\* bypass only if the digest, identity, domain and signature checks pass.
C12_VerifyPaymentRequestUnverified ==
    /\ (ResponseArrived /\ op.name = "verifyPaymentRequest")
          => /\ ~call.invoked
             /\ JsonValid(call.rawBody)
                  => result = Returned(<<>>, <<JsonParse(call.rawBody)>>, {})
             /\ ~JsonValid(call.rawBody) => ~result.ok
    /\ (ResponseArrived /\ op.name = "sendSignedPayment" /\ ~op.unsafeBypassValidation
          /\ result.ok)
          => /\ call.invoked
             /\ PassesUpToIdentity
             /\ DigestIsOfBody
             /\ RequestHost \in NamedEntry.domains
             /\ SignatureIsOfNamedIdentity

C12_Witness ==
    /\ ResponseArrived
    /\ op.name = "verifyPaymentRequest"
    /\ ~op.unsafeBypassValidation
    /\ call.headers.digest.type = "undefined"
    /\ call.headers.identity.text = "nobody"
    /\ result = Returned(<<>>, <<JsonObject("main")>>, {})

\* The current operation is one of the four client operations and has returned.
ClientOperationReturned == pc = "done" /\ op.name \in ClientOperations

\* getPaymentOptions rejected the payment URL before any request (line 405).
RejectedBeforeRequest ==
    /\ op.name = "getPaymentOptions"
    /\ result = Thrown("Invalid payment protocol url", <<>>)

\* C13 (as stated): every invocation of a client operation, succeeding or failing,
\* has issued exactly one transport request when it returns.
C13_ExactlyOneRequest ==
    ClientOperationReturned => Len(sent) = 1

\* C13 (amended): an invocation never issues a second request, has issued exactly
\* one when it returns unless getPaymentOptions rejected the URL (then none), and a
\* request is issued only by the invocation and answered before the result exists.
C13_OneRequestUnlessUrlRejected ==
    /\ [](/\ Len(sent) <= 1
          /\ ClientOperationReturned =>
                IF RejectedBeforeRequest THEN sent = <<>> ELSE Len(sent) = 1
          /\ pc = "awaiting" => (Len(sent) = 1 /\ result = NoResult))
    /\ [][/\ sent' # sent => (pc = "idle" /\ sent = <<>>)
          /\ (result = NoResult /\ result' # NoResult /\ sent' # <<>>)
                => (pc = "awaiting" /\ sent' = sent)]_vars

C13_Witness ==
    /\ ClientOperationReturned
    /\ op.name = "sendSignedPayment"
    /\ ~result.ok
    /\ call.status = StatusOk
    /\ Len(sent) = 1

\* The constructor's transport options.
ConstructedOptions == [agent |-> FALSE, rejectUnauthorized |-> FALSE]

\* C14: no call changes the trust store or the transport options, whatever its
\* outcome; a failure returns no value; a transport failure ends the operation
\* before the verifier and a verifier failure is the error the caller receives.
C14_StoreAndOptionsUnchanged ==
    /\ [][trustedKeys' = trustedKeys /\ options' = options]_vars
    /\ [](/\ options = ConstructedOptions
          /\ sent # <<>> => (/\ sent[1].agent = options.agent
                             /\ sent[1].rejectUnauthorized = options.rejectUnauthorized)
          /\ (pc = "done" /\ ~result.ok) =>
                /\ result.requestUrl = <<>>
                /\ result.responseData = <<>>
                /\ result.keyData = {}
                /\ result.error \in {"Error", "request error"} => ~call.invoked
                /\ call.invoked =>
                      result = VerifyResponse(call.requestUrl, call.rawBody, call.headers,
                                              call.checkNetwork, call.unsafeBypassValidation,
                                              trustedKeys))

C14_Witness ==
    /\ ClientOperationReturned
    /\ op.name = "selectPaymentOption"
    /\ call.invoked
    /\ result = Thrown("Response signed by unknown key", <<>>)
    /\ options = ConstructedOptions
    /\ trustedKeys = WideTrustStore

\* A response with a status other than 200 has arrived for the current operation.
ErrorStatusArrived == pc = "done" /\ call.status \in Statuses \ {StatusOk}

\* C15: a response with a status other than 200 fails the operation with an error
\* whose text is the response body; verifyResponse is not called and there is no
\* success, even for a body and headers that verification would accept.
C15_ErrorStatusFails ==
    ErrorStatusArrived =>
        /\ result = Thrown("Error", call.rawBody)
        /\ ~call.invoked

C15_Witness ==
    /\ ErrorStatusArrived
    /\ op.name = "getPaymentOptions"
    /\ ~op.unsafeBypassValidation
    /\ VerifyResponse(op.url, call.rawBody, call.headers, FALSE, FALSE, trustedKeys).ok
    /\ ~result.ok

\* verifyResponse was called without bypass with all three required arguments present.
CheckedCall ==
    /\ VerifiedCall
    /\ call.requestUrl # EmptyUrl
    /\ call.rawBody # <<>>
    /\ call.headers.object

HeaderIsText(header, empty) == header.type = "string" /\ ~empty

\* What each check of verifyResponse rejects, stated on the call's arguments alone.
Fails(step) ==
    CASE step = "json" -> ~JsonValid(call.rawBody)
      [] step = "digestHeader" -> call.headers.digest.type # "string"
      [] step = "signatureType" -> call.headers.signatureType # TextHeader("string", "ecc")
      [] step = "signature" ->
            ~HeaderIsText(call.headers.signature, call.headers.signature.s = HexString(<<>>, ""))
      [] step = "identity" ->
            ~HeaderIsText(call.headers.identity, call.headers.identity.text = "")
      [] step = "headers" ->
            \/ call.headers.digest.type # "string"
            \/ call.headers.signatureType # TextHeader("string", "ecc")
            \/ ~HeaderIsText(call.headers.signature,
                             call.headers.signature.s = HexString(<<>>, ""))
            \/ ~HeaderIsText(call.headers.identity, call.headers.identity.text = "")
      [] step = "url" -> RequestHost = "null"
      [] step = "lookup" ->
            ~ /\ call.headers.identity.type = "string"
              /\ call.headers.identity.text \in DOMAIN trustedKeys \cup InheritedProperties
      [] step = "digest" -> ~DigestIsOfBody
      [] step = "domain" ->
            IF IdentityNamesEntry THEN RequestHost \notin NamedEntry.domains ELSE TRUE
      [] step = "network" ->
            /\ call.checkNetwork
            /\ IF IdentityNamesEntry /\ JsonValid(call.rawBody)
               THEN JsonParse(call.rawBody).network \notin NamedEntry.networks
               ELSE TRUE
      [] step = "verify" ->
            IF IdentityNamesEntry THEN ~SignatureIsOfNamedIdentity ELSE TRUE

\* The errors with which each check rejects.
ErrorsOf(step) ==
    CASE step = "json" -> {"Invalid JSON in response body"}
      [] step = "digestHeader" -> {"TypeError"}
      [] step = "signatureType" -> {"Response missing x-signature-type header",
                                    "Invalid x-signature-type header",
                                    "Unknown signature type"}
      [] step = "signature" -> {"Response missing signature header",
                                "Invalid signature header"}
      [] step = "identity" -> {"Response missing x-identity header",
                               "Invalid identity header"}
      [] step = "headers" -> {"TypeError",
                              "Response missing x-signature-type header",
                              "Invalid x-signature-type header",
                              "Unknown signature type",
                              "Response missing signature header",
                              "Invalid signature header",
                              "Response missing x-identity header",
                              "Invalid identity header"}
      [] step = "url" -> {"Invalid requestUrl"}
      [] step = "lookup" -> {"Response signed by unknown key"}
      [] step = "digest" -> {"Response body hash does not match digest header"}
      [] step = "domain" -> {"TypeError", "The key on the response is not trusted for domain"}
      [] step = "network" ->
            {"TypeError",
             "The key on the response is not trusted for transactions on the network"}
      [] step = "verify" -> {"secp256k1 assertion", "Response signature invalid"}

\* The order of the checks as the claim gives it, the four header checks as one step.
ClaimedOrder ==
    <<"json", "headers", "url", "lookup", "digest", "domain", "network", "verify">>

\* The order of the checks in verifyResponse (lines 541-614).
CodeOrder ==
    <<"json", "digestHeader", "url", "signatureType", "signature", "identity",
      "lookup", "digest", "domain", "network", "verify">>

\* The call fails with the error of the first check in the order that rejects it,
\* and succeeds when none does.
ReportsEarliestFailure(order) ==
    LET failing == { i \in 1..Len(order) : Fails(order[i]) } IN
    IF failing = {} THEN result.ok
    ELSE LET first == CHOOSE i \in failing : \A j \in failing : i <= j IN
         /\ ~result.ok
         /\ result.error \in ErrorsOf(order[first])

\* C16 (as stated): the error is that of the earliest failing step in the order JSON
\* parse, header checks, request-URL host, identity lookup, digest comparison, domain,
\* network, signature; so a header error precedes an invalid request URL.
C16_ClaimedOrderOfErrors == CheckedCall => ReportsEarliestFailure(ClaimedOrder)

\* C16 (amended): the error is that of the earliest failing step in the order JSON
\* parse, digest header read, request-URL host, x-signature-type, signature,
\* x-identity, identity lookup, digest comparison, domain, network, signature.
C16_CodeOrderOfErrors == CheckedCall => ReportsEarliestFailure(CodeOrder)

C16_Witness ==
    /\ CheckedCall
    /\ Fails("lookup")
    /\ Fails("digest")
    /\ ~Fails("signatureType")
    /\ result = Thrown("Response signed by unknown key", <<>>)

\* An authenticating operation has handed a 200 response to verifyResponse.
AuthenticatingCall ==
    pc = "done" /\ op.name \in AuthenticatingOperations /\ call.invoked

\* C17: for getPaymentOptions, selectPaymentOption and sendSignedPayment the URL
\* handed to verifyResponse, whose hostname is tested against the key's domains and
\* which is returned as requestUrl, is the URL the one request was sent to (for a
\* payment URI the value of r): same hostname and path as the request on the wire.
C17_VerifiedUrlIsRequestedUrl ==
    AuthenticatingCall =>
        /\ Len(sent) = 1
        /\ call.requestUrl = IF op.name = "getPaymentOptions" /\ IsPaymentUri(op.paymentUrl)
                             THEN op.paymentUrl.r[1]
                             ELSE op.paymentUrl
        /\ RequestHost = sent[1].hostname
        /\ UrlParse(call.requestUrl).path = sent[1].path
        /\ result.ok => result.requestUrl = <<call.requestUrl>>
        /\ (result.ok /\ ~call.unsafeBypassValidation) =>
              \E keyData \in result.keyData : sent[1].hostname \in keyData.domains

C17_Witness ==
    /\ AuthenticatingCall
    /\ op.name = "getPaymentOptions"
    /\ op.paymentUrl = PaymentUri(<<HttpUrl>>)
    /\ ~call.unsafeBypassValidation
    /\ result.ok
    /\ sent[1].hostname = "merchant.example"
    /\ result.requestUrl = <<HttpUrl>>

(***************************************************************************)
(* Properties of the example wallet's main, under SpecMain.                *)
(***************************************************************************)
StartedNames == [i \in 1..Len(started) |-> started[i].name]

HasStarted(name) == \E i \in 1..Len(started) : started[i].name = name

IsPrefix(s, t) == Len(s) <= Len(t) /\ \A i \in 1..Len(s) : s[i] = t[i]

\* The calls of main in the order of the protocol.
ProtocolOrder ==
    <<"getPaymentOptions", "selectPaymentOption", "verifyPaymentRequest",
      "sendSignedPayment", "broadcastP2P">>

\* The errors with which main ends before the final step.
EarlierFailures ==
    {"getPaymentOptions", "selectPaymentOption", "transaction", "verifyPaymentRequest",
     "TypeError", "User aborted"}

\* C18: main calls getPaymentOptions, selectPaymentOption, verifyPaymentRequest and
\* sendSignedPayment in this order, each only after the previous call fulfilled;
\* sendSignedPayment and the broadcast are called only after verifyPaymentRequest
\* fulfilled and the user confirmed, and never when an earlier step failed or the
\* user declined.
C18_StepsInOrder ==
    /\ IsPrefix(StartedNames, ProtocolOrder)
    /\ HasStarted("selectPaymentOption") => "getPaymentOptions" \in succeeded
    /\ HasStarted("verifyPaymentRequest") =>
            {"selectPaymentOption", "transaction"} \subseteq succeeded
    /\ \A t \in TaskNames :
            (HasStarted(t) \/ tasks[t] # "none") =>
                /\ "verifyPaymentRequest" \in succeeded
                /\ signPayment = <<TRUE>>
    /\ (mainError \in EarlierFailures \/ signPayment = <<FALSE>>) =>
            \A t \in TaskNames : ~HasStarted(t) /\ tasks[t] = "none"

C18_Witness ==
    /\ mpc = "sending"
    /\ StartedNames = ProtocolOrder
    /\ signPayment = <<TRUE>>
    /\ succeeded = {"getPaymentOptions", "selectPaymentOption", "transaction",
                    "verifyPaymentRequest"}

\* The final step has begun: a promise of it exists.
FinalStepBegun == \E t \in TaskNames : tasks[t] # "none"

\* The rejections among the settled promises, in the order they happened.
Rejections == SelectSeq(settled, LAMBDA e : e.outcome = "rejected")

\* C19: in the final step sendSignedPayment and broadcastP2P are both called before
\* either settles; when one was rejected the other, still pending, can settle; main
\* is fulfilled exactly when both fulfilled and is otherwise rejected with the
\* rejection that happened first.
C19_BothStartedFirstErrorWins ==
    FinalStepBegun =>
        /\ \A t \in TaskNames : tasks[t] # "none" /\ HasStarted(t)
        /\ \A a, b \in TaskNames :
                (tasks[a] = "rejected" /\ tasks[b] = "pending") =>
                    /\ ENABLED Settle(b, "fulfilled")
                    /\ ENABLED Settle(b, "rejected")
        /\ mpc = "fulfilled" <=> \A t \in TaskNames : tasks[t] = "fulfilled"
        /\ mpc = "rejected" <=> Rejections # <<>>
        /\ Rejections # <<>> => mainError = Rejections[1].task

C19_Witness ==
    /\ settled = << [task |-> "sendSignedPayment", outcome |-> "rejected"],
                    [task |-> "broadcastP2P", outcome |-> "fulfilled"] >>
    /\ mpc = "rejected"
    /\ mainError = "sendSignedPayment"

\* The call of selectPaymentOption main made.
SelectCall == started[CHOOSE i \in 1..Len(started) : started[i].name = "selectPaymentOption"]

\* C20: when main calls selectPaymentOption, the chain and currency it sends are
\* those of the option printed with the number the user chose, and that chain has a
\* configured RPC server.
C20_SelectsThePrintedOption ==
    HasStarted("selectPaymentOption") =>
        /\ \E i \in 1..Len(printed) :
                /\ printed[i].number = answer
                /\ printed[i].option = PaymentOption(SelectCall.chain, SelectCall.currency)
        /\ SelectCall.chain \in RpcServers
        /\ rpcUrl = SelectCall.chain

C20_Witness ==
    /\ HasStarted("selectPaymentOption")
    /\ Len(paymentOptions) = 3
    /\ paymentOptions[1] # paymentOptions[2]
    /\ answer = 2
    /\ SelectCall.chain = paymentOptions[2].chain
    /\ SelectCall.currency = paymentOptions[2].currency

====
